---- MODULE Spec2Model ----
(***************************************************************************)
(* Model of src/Core/Joins.h: the closed JOIN enumerations, the constexpr  *)
(* predicates over JoinKind, the ASOF inequality lookup and reversal, and  *)
(* the binary (de)serialization of JoinKind, JoinStrictness, JoinLocality. *)
(*                                                                         *)
(* The header defines the enumerations and the constexpr functions; the    *)
(* functions it only declares (serialize*, deserialize*, reverseJoinKind,  *)
(* toString) are defined in a translation unit that is not part of the     *)
(* sources at hand.  The first three are modelled from the design text;    *)
(* toString is not modelled, the design text gives no display names.       *)
(***************************************************************************)
EXTENDS Integers, Sequences, FiniteSets, TLC

(* ------------------------------------------------------------------ *)
(* Bounds                                                              *)
(* ------------------------------------------------------------------ *)

\* Longest stream the writer side builds up before the reader drains it.
MaxStream == 2

\* Longest stream of arbitrary bytes a reader is handed.
MaxRecv == 1

(* ------------------------------------------------------------------ *)
(* Enumerations: the enumerators in declaration order                  *)
(* ------------------------------------------------------------------ *)

\* uint8_t: the underlying type of every enumeration.
UInt8Card == 256

Byte == 0 .. (UInt8Card - 1)

JoinKind == <<"Inner", "Left", "Right", "Full", "Cross", "Comma", "Paste">>

JoinStrictness == <<"Unspecified", "RightAny", "Any", "All", "Asof", "Semi", "Anti">>

JoinLocality_appended == <<"Unspecified", "Local", "Global", "Remote">>

JoinLocality == <<"Unspecified", "Local", "Global">>

ASOFJoinInequality == <<"None", "Less", "Greater", "LessOrEquals", "GreaterOrEquals">>

JoinAlgorithm ==
    <<"DEFAULT", "AUTO", "HASH", "PARTIAL_MERGE", "PREFER_PARTIAL_MERGE",
      "PARALLEL_HASH", "GRACE_HASH", "DIRECT", "FULL_SORTING_MERGE">>

JoinTableSide == <<"Left", "Right">>

\* Every enumeration of the header, by name.
Enumerations ==
    [ JoinKind           |-> JoinKind,
      JoinStrictness     |-> JoinStrictness,
      JoinLocality       |-> JoinLocality,
      ASOFJoinInequality |-> ASOFJoinInequality,
      JoinAlgorithm      |-> JoinAlgorithm,
      JoinTableSide      |-> JoinTableSide ]

\* The enumerators that carry an initializer in their declaration.
ExplicitlyNumbered == { <<"JoinAlgorithm", "DEFAULT">> }

\* The enumerations for which serialize/deserialize functions are declared.
Serializable == {"JoinKind", "JoinStrictness", "JoinLocality"}

Variants(decl) == { decl[i] : i \in 1 .. Len(decl) }

\* The value of an enumerator without initializer: 0 for the first, the
\* previous one plus 1 for every other, in the underlying type.
EnumValue(decl, v) ==
    ((CHOOSE i \in 1 .. Len(decl) : decl[i] = v) - 1) % UInt8Card

\* Comma declared as an alias of Cross.
JoinKindValue_alias(kind) ==
    IF kind = "Comma" THEN EnumValue(JoinKind, "Cross") ELSE EnumValue(JoinKind, kind)

\* Cross and Comma declared in the other order.
JoinKindValue_reordered(kind) ==
    CASE kind = "Cross" -> EnumValue(JoinKind, "Comma")
      [] kind = "Comma" -> EnumValue(JoinKind, "Cross")
      [] OTHER -> EnumValue(JoinKind, kind)

JoinKindValue(kind) == EnumValue(JoinKind, kind)

JoinStrictnessValue(strictness) == EnumValue(JoinStrictness, strictness)

JoinLocalityValue(locality) == EnumValue(JoinLocality, locality)

(* ------------------------------------------------------------------ *)
(* Predicates over JoinKind                                            *)
(* ------------------------------------------------------------------ *)

isLeft(kind) == kind = "Left"

isRight(kind) == kind = "Right"

isInner(kind) == kind = "Inner"

isFull(kind) == kind = "Full"

isOuter_noFull(kind) == kind = "Left" \/ kind = "Right"

isOuter(kind) == kind = "Left" \/ kind = "Right" \/ kind = "Full"

isCrossOrComma_noComma(kind) == kind = "Cross"

isCrossOrComma(kind) == kind = "Comma" \/ kind = "Cross"

isRightOrFull(kind) == kind = "Right" \/ kind = "Full"

isLeftOrFull_pasted(kind) == kind = "Right" \/ kind = "Full"

isLeftOrFull(kind) == kind = "Left" \/ kind = "Full"

isInnerOrRight(kind) == kind = "Inner" \/ kind = "Right"

isInnerOrLeft(kind) == kind = "Inner" \/ kind = "Left"

isPaste(kind) == kind = "Paste"

\* Left <-> Right; every other kind is returned unchanged.
reverseJoinKind(kind) ==
    IF kind = "Right" THEN "Left"
    ELSE IF kind = "Left" THEN "Right"
    ELSE kind

(* ------------------------------------------------------------------ *)
(* ASOF inequality lookup and reversal                                 *)
(* ------------------------------------------------------------------ *)

\* "lessOrEquals" and "greaterOrEquals" matched by their prefix.
getASOFJoinInequality_prefix(func_name) ==
    IF func_name = "less" \/ func_name = "lessOrEquals" THEN "Less"
    ELSE IF func_name = "greater" \/ func_name = "greaterOrEquals" THEN "Greater"
    ELSE "None"

getASOFJoinInequality(func_name) ==
    IF func_name = "less" THEN "Less"
    ELSE IF func_name = "greater" THEN "Greater"
    ELSE IF func_name = "lessOrEquals" THEN "LessOrEquals"
    ELSE IF func_name = "greaterOrEquals" THEN "GreaterOrEquals"
    ELSE "None"

\* The non-strict inequalities reversed to strict ones.
reverseASOFJoinInequality_strict(inequality) ==
    IF inequality = "Less" THEN "Greater"
    ELSE IF inequality = "Greater" THEN "Less"
    ELSE IF inequality = "LessOrEquals" THEN "Greater"
    ELSE IF inequality = "GreaterOrEquals" THEN "Less"
    ELSE "None"

\* The non-strict inequalities left as they are.
reverseASOFJoinInequality_partial(inequality) ==
    IF inequality = "Less" THEN "Greater"
    ELSE IF inequality = "Greater" THEN "Less"
    ELSE inequality

reverseASOFJoinInequality(inequality) ==
    IF inequality = "Less" THEN "Greater"
    ELSE IF inequality = "Greater" THEN "Less"
    ELSE IF inequality = "LessOrEquals" THEN "GreaterOrEquals"
    ELSE IF inequality = "GreaterOrEquals" THEN "LessOrEquals"
    ELSE "None"

(* ------------------------------------------------------------------ *)
(* Wire format                                                         *)
(* ------------------------------------------------------------------ *)

DecodingError == "DecodingError"

\* serialize: the discriminant written for a value.
serializeJoinKind(kind) == JoinKindValue(kind)

serializeJoinStrictness(strictness) == JoinStrictnessValue(strictness)

serializeJoinLocality(locality) == JoinLocalityValue(locality)

\* deserialize: the variant whose discriminant was read, a decoding error
\* when there is none.
deserializeJoinKind(val) ==
    IF \E k \in Variants(JoinKind) : JoinKindValue(k) = val
    THEN CHOOSE k \in Variants(JoinKind) : JoinKindValue(k) = val
    ELSE DecodingError

deserializeJoinStrictness(val) ==
    IF \E s \in Variants(JoinStrictness) : JoinStrictnessValue(s) = val
    THEN CHOOSE s \in Variants(JoinStrictness) : JoinStrictnessValue(s) = val
    ELSE DecodingError

deserializeJoinLocality(val) ==
    IF \E l \in Variants(JoinLocality) : JoinLocalityValue(l) = val
    THEN CHOOSE l \in Variants(JoinLocality) : JoinLocalityValue(l) = val
    ELSE DecodingError

(* ------------------------------------------------------------------ *)
(* State                                                               *)
(* ------------------------------------------------------------------ *)

VARIABLES
    call,    \* the last call: function, argument, result
    out,     \* the byte stream (WriteBuffer appends, ReadBuffer consumes)
    origin   \* per byte of out: the <<enumeration, variant>> it was written for

vars == <<call, out, origin>>

NoByte == -1

NoOrigin == <<"-", "-">>

Raw == <<"raw", "raw">>

\* Function names a caller may look up.
FuncNames ==
    { "less", "greater", "lessOrEquals", "greaterOrEquals",
      "", "Less", "Greater", "LESS", "lessorequals", "greaterorequals",
      "lessOrEqual", "less ", "equals", "notEquals", "unknownFunc", "greaterOrEquals2" }

BoolCall(f, a, b) ==
    [fn |-> f, arg |-> a, bret |-> b, eret |-> "-", byte |-> NoByte, src |-> NoOrigin]

EnumCall(f, a, e) ==
    [fn |-> f, arg |-> a, bret |-> FALSE, eret |-> e, byte |-> NoByte, src |-> NoOrigin]

WireCall(f, a, e, b, s) ==
    [fn |-> f, arg |-> a, bret |-> FALSE, eret |-> e, byte |-> b, src |-> s]

NoCall == EnumCall("none", "-", "-")

Init ==
    /\ call = NoCall
    /\ out = <<>>
    /\ origin = <<>>

\* A reader handed a stream of arbitrary bytes.
InitDecode ==
    /\ call = NoCall
    /\ \E n \in 0 .. MaxRecv :
         /\ out \in [1 .. n -> Byte]
         /\ origin = [i \in 1 .. n |-> Raw]

(* ------------------------------------------------------------------ *)
(* Actions: one per function                                           *)
(* ------------------------------------------------------------------ *)

CallIsLeft ==
    \E kind \in Variants(JoinKind) :
        /\ call' = BoolCall("isLeft", kind, isLeft(kind))
        /\ UNCHANGED <<out, origin>>

CallIsRight ==
    \E kind \in Variants(JoinKind) :
        /\ call' = BoolCall("isRight", kind, isRight(kind))
        /\ UNCHANGED <<out, origin>>

CallIsInner ==
    \E kind \in Variants(JoinKind) :
        /\ call' = BoolCall("isInner", kind, isInner(kind))
        /\ UNCHANGED <<out, origin>>

CallIsFull ==
    \E kind \in Variants(JoinKind) :
        /\ call' = BoolCall("isFull", kind, isFull(kind))
        /\ UNCHANGED <<out, origin>>

CallIsOuter ==
    \E kind \in Variants(JoinKind) :
        /\ call' = BoolCall("isOuter", kind, isOuter(kind))
        /\ UNCHANGED <<out, origin>>

CallIsCrossOrComma ==
    \E kind \in Variants(JoinKind) :
        /\ call' = BoolCall("isCrossOrComma", kind, isCrossOrComma(kind))
        /\ UNCHANGED <<out, origin>>

CallIsRightOrFull ==
    \E kind \in Variants(JoinKind) :
        /\ call' = BoolCall("isRightOrFull", kind, isRightOrFull(kind))
        /\ UNCHANGED <<out, origin>>

CallIsLeftOrFull ==
    \E kind \in Variants(JoinKind) :
        /\ call' = BoolCall("isLeftOrFull", kind, isLeftOrFull(kind))
        /\ UNCHANGED <<out, origin>>

CallIsInnerOrRight ==
    \E kind \in Variants(JoinKind) :
        /\ call' = BoolCall("isInnerOrRight", kind, isInnerOrRight(kind))
        /\ UNCHANGED <<out, origin>>

CallIsInnerOrLeft ==
    \E kind \in Variants(JoinKind) :
        /\ call' = BoolCall("isInnerOrLeft", kind, isInnerOrLeft(kind))
        /\ UNCHANGED <<out, origin>>

CallIsPaste ==
    \E kind \in Variants(JoinKind) :
        /\ call' = BoolCall("isPaste", kind, isPaste(kind))
        /\ UNCHANGED <<out, origin>>

CallReverseJoinKind ==
    \E kind \in Variants(JoinKind) :
        /\ call' = EnumCall("reverseJoinKind", kind, reverseJoinKind(kind))
        /\ UNCHANGED <<out, origin>>

CallGetASOFJoinInequality ==
    \E func_name \in FuncNames :
        /\ call' = EnumCall("getASOFJoinInequality", func_name,
                            getASOFJoinInequality(func_name))
        /\ UNCHANGED <<out, origin>>

CallReverseASOFJoinInequality ==
    \E inequality \in Variants(ASOFJoinInequality) :
        /\ call' = EnumCall("reverseASOFJoinInequality", inequality,
                            reverseASOFJoinInequality(inequality))
        /\ UNCHANGED <<out, origin>>

\* serialize*(value, out): one discriminant appended to the stream.
Write(f, enum, v, val) ==
    /\ Len(out) < MaxStream
    /\ out' = Append(out, val)
    /\ origin' = Append(origin, <<enum, v>>)
    /\ call' = WireCall(f, v, "-", val, <<enum, v>>)

\* deserialize*(in): one discriminant consumed from the stream and decoded
\* with the enumeration's decoder; an exhausted stream is a decoding error.
Read(f, decoded) ==
    IF out = <<>>
    THEN /\ call' = WireCall(f, "-", DecodingError, NoByte, NoOrigin)
         /\ UNCHANGED <<out, origin>>
    ELSE /\ call' = WireCall(f, "-", decoded, Head(out), Head(origin))
         /\ out' = Tail(out)
         /\ origin' = Tail(origin)

CallSerializeJoinKind ==
    \E kind \in Variants(JoinKind) :
        Write("serializeJoinKind", "JoinKind", kind, serializeJoinKind(kind))

CallSerializeJoinStrictness ==
    \E strictness \in Variants(JoinStrictness) :
        Write("serializeJoinStrictness", "JoinStrictness", strictness,
              serializeJoinStrictness(strictness))

CallSerializeJoinLocality ==
    \E locality \in Variants(JoinLocality) :
        Write("serializeJoinLocality", "JoinLocality", locality,
              serializeJoinLocality(locality))

CallDeserializeJoinKind ==
    Read("deserializeJoinKind",
         IF out = <<>> THEN DecodingError ELSE deserializeJoinKind(Head(out)))

CallDeserializeJoinStrictness ==
    Read("deserializeJoinStrictness",
         IF out = <<>> THEN DecodingError ELSE deserializeJoinStrictness(Head(out)))

CallDeserializeJoinLocality ==
    Read("deserializeJoinLocality",
         IF out = <<>> THEN DecodingError ELSE deserializeJoinLocality(Head(out)))

(* ------------------------------------------------------------------ *)
(* Specifications                                                      *)
(* ------------------------------------------------------------------ *)

\* The constexpr functions and the reversals, applied to every input.
Next ==
    \/ CallIsLeft
    \/ CallIsRight
    \/ CallIsInner
    \/ CallIsFull
    \/ CallIsOuter
    \/ CallIsCrossOrComma
    \/ CallIsRightOrFull
    \/ CallIsLeftOrFull
    \/ CallIsInnerOrRight
    \/ CallIsInnerOrLeft
    \/ CallIsPaste
    \/ CallReverseJoinKind
    \/ CallGetASOFJoinInequality
    \/ CallReverseASOFJoinInequality

Spec == Init /\ [][Next]_vars

\* A writer and a reader sharing one stream.
NextWire ==
    \/ CallSerializeJoinKind
    \/ CallSerializeJoinStrictness
    \/ CallSerializeJoinLocality
    \/ CallDeserializeJoinKind
    \/ CallDeserializeJoinStrictness
    \/ CallDeserializeJoinLocality

SpecWire == Init /\ [][NextWire]_vars

\* A reader decoding a stream of arbitrary bytes.
NextDecode ==
    \/ CallDeserializeJoinKind
    \/ CallDeserializeJoinStrictness
    \/ CallDeserializeJoinLocality

SpecDecode == InitDecode /\ [][NextDecode]_vars

(* ------------------------------------------------------------------ *)
(* Properties                                                          *)
(* ------------------------------------------------------------------ *)

Serializer(e) ==
    CASE e = "JoinKind" -> "serializeJoinKind"
      [] e = "JoinStrictness" -> "serializeJoinStrictness"
      [] e = "JoinLocality" -> "serializeJoinLocality"

Deserializer(e) ==
    CASE e = "JoinKind" -> "deserializeJoinKind"
      [] e = "JoinStrictness" -> "deserializeJoinStrictness"
      [] e = "JoinLocality" -> "deserializeJoinLocality"

Encode(e, v) ==
    CASE e = "JoinKind" -> serializeJoinKind(v)
      [] e = "JoinStrictness" -> serializeJoinStrictness(v)
      [] e = "JoinLocality" -> serializeJoinLocality(v)

Decode(e, val) ==
    CASE e = "JoinKind" -> deserializeJoinKind(val)
      [] e = "JoinStrictness" -> deserializeJoinStrictness(val)
      [] e = "JoinLocality" -> deserializeJoinLocality(val)

C2_DecodeRejection ==
    /\ ( /\ call.fn = "deserializeJoinKind"
         /\ call.byte # NoByte
         /\ \/ call.byte \notin { JoinKindValue(k) : k \in Variants(JoinKind) }
            \/ call.byte \in 7 .. 255 )
       => call.eret = DecodingError
    /\ ( /\ call.fn = "deserializeJoinStrictness"
         /\ call.byte # NoByte
         /\ \/ call.byte \notin { JoinStrictnessValue(s) : s \in Variants(JoinStrictness) }
            \/ call.byte \in 7 .. 255 )
       => call.eret = DecodingError
    /\ ( /\ call.fn = "deserializeJoinLocality"
         /\ call.byte # NoByte
         /\ \/ call.byte \notin { JoinLocalityValue(l) : l \in Variants(JoinLocality) }
            \/ call.byte \in 3 .. 255 )
       => call.eret = DecodingError

C2_Witness ==
    /\ call.fn = "deserializeJoinLocality"
    /\ call.byte = 3
    /\ call.src = Raw
    /\ call.eret = DecodingError

\* C3: reversing the result of reverseJoinKind gives back its argument, and
\* reversing the result of reverseASOFJoinInequality gives back its argument.
C3_Involution ==
    /\ call.fn = "reverseJoinKind" => reverseJoinKind(call.eret) = call.arg
    /\ call.fn = "reverseASOFJoinInequality"
         => reverseASOFJoinInequality(call.eret) = call.arg

C3_Witness ==
    /\ call.fn = "reverseASOFJoinInequality"
    /\ call.arg = "LessOrEquals"
    /\ call.eret = "GreaterOrEquals"

\* C4: reverseJoinKind swaps Left and Right and returns every other kind
\* unchanged; reverseASOFJoinInequality swaps Less with Greater and
\* LessOrEquals with GreaterOrEquals and returns None for None.
C4_ReversalTable ==
    /\ call.fn = "reverseJoinKind" =>
         <<call.arg, call.eret>> \in
            { <<"Left", "Right">>, <<"Right", "Left">>, <<"Inner", "Inner">>,
              <<"Full", "Full">>, <<"Cross", "Cross">>, <<"Comma", "Comma">>,
              <<"Paste", "Paste">> }
    /\ call.fn = "reverseASOFJoinInequality" =>
         <<call.arg, call.eret>> \in
            { <<"Less", "Greater">>, <<"Greater", "Less">>,
              <<"LessOrEquals", "GreaterOrEquals">>,
              <<"GreaterOrEquals", "LessOrEquals">>, <<"None", "None">> }

C4_Witness ==
    /\ call.fn = "reverseJoinKind"
    /\ call.arg = "Right"
    /\ call.eret = "Left"

KindFunctions ==
    { "isLeft", "isRight", "isInner", "isFull", "isOuter", "isCrossOrComma",
      "isRightOrFull", "isLeftOrFull", "isInnerOrRight", "isInnerOrLeft",
      "isPaste", "reverseJoinKind" }

\* The classes, among the six of the partition, that a kind falls in.
Classes(kind) ==
    (IF isLeft(kind) THEN {"isLeft"} ELSE {})
    \cup (IF isRight(kind) THEN {"isRight"} ELSE {})
    \cup (IF isInner(kind) THEN {"isInner"} ELSE {})
    \cup (IF isFull(kind) THEN {"isFull"} ELSE {})
    \cup (IF isCrossOrComma(kind) THEN {"isCrossOrComma"} ELSE {})
    \cup (IF isPaste(kind) THEN {"isPaste"} ELSE {})

\* C5: every JoinKind a function is called with falls in exactly one of the
\* classes isLeft, isRight, isInner, isFull, isCrossOrComma, isPaste; a call
\* of one of the six that returns true names that class.
C5_Partition ==
    call.fn \in KindFunctions =>
        /\ Cardinality(Classes(call.arg)) = 1
        /\ (call.fn \in { "isLeft", "isRight", "isInner", "isFull",
                          "isCrossOrComma", "isPaste" })
             => (call.bret <=> Classes(call.arg) = {call.fn})

C5_Witness ==
    /\ call.fn = "isCrossOrComma"
    /\ call.arg = "Comma"
    /\ call.bret

\* C6: getASOFJoinInequality returns Less, Greater, LessOrEquals,
\* GreaterOrEquals for exactly the names "less", "greater", "lessOrEquals",
\* "greaterOrEquals", and None for every other name.
C6_Lookup ==
    call.fn = "getASOFJoinInequality" =>
        /\ call.eret \in Variants(ASOFJoinInequality)
        /\ call.eret = "Less" <=> call.arg = "less"
        /\ call.eret = "Greater" <=> call.arg = "greater"
        /\ call.eret = "LessOrEquals" <=> call.arg = "lessOrEquals"
        /\ call.eret = "GreaterOrEquals" <=> call.arg = "greaterOrEquals"
        /\ call.eret = "None" <=>
             call.arg \notin {"less", "greater", "lessOrEquals", "greaterOrEquals"}

C6_Witness ==
    /\ call.fn = "getASOFJoinInequality"
    /\ call.arg = "lessorequals"
    /\ call.eret = "None"

\* The numbering the wire format is documented with.
WireNumbering ==
    [ JoinKind |->
        [ Inner |-> 0, Left |-> 1, Right |-> 2, Full |-> 3, Cross |-> 4,
          Comma |-> 5, Paste |-> 6 ],
      JoinStrictness |->
        [ Unspecified |-> 0, RightAny |-> 1, Any |-> 2, All |-> 3, Asof |-> 4,
          Semi |-> 5, Anti |-> 6 ],
      JoinLocality |->
        [ Unspecified |-> 0, Local |-> 1, Global |-> 2 ] ]

\* C7, amended: a serializer appends one discriminant to the stream, and it
\* is the number of the variant in the documented numbering, which the
\* declaration gives by its order, without an explicit number.
C7_Discriminants ==
    \A e \in Serializable :
        call.fn = Serializer(e) =>
            /\ Len(out) >= 1
            /\ out[Len(out)] = call.byte
            /\ origin[Len(out)] = <<e, call.arg>>
            /\ call.arg \in DOMAIN WireNumbering[e]
            /\ call.byte = WireNumbering[e][call.arg]
            /\ <<e, call.arg>> \notin ExplicitlyNumbered

\* C7, as stated: the same, and the number of every serialized variant is
\* assigned explicitly in its declaration.
C7_ExplicitDiscriminants ==
    \A e \in Serializable :
        call.fn = Serializer(e) =>
            /\ call.byte = WireNumbering[e][call.arg]
            /\ <<e, call.arg>> \in ExplicitlyNumbered

C7_Witness ==
    /\ call.fn = "serializeJoinKind"
    /\ call.arg = "Paste"
    /\ call.byte = 6
    /\ out[Len(out)] = 6

\* C9: each derived predicate is the union of the exact-kind predicates it
\* is named for; all of them are false for Paste, and isOuter is false for
\* Inner, Cross and Comma.
C9_DerivedPredicates ==
    LET k == call.arg IN
    /\ call.fn = "isOuter" =>
         /\ call.bret <=> (isLeft(k) \/ isRight(k) \/ isFull(k))
         /\ k \in {"Inner", "Cross", "Comma", "Paste"} => ~call.bret
    /\ call.fn = "isCrossOrComma" =>
         /\ call.bret <=> (k = "Cross" \/ k = "Comma")
         /\ k = "Paste" => ~call.bret
    /\ call.fn = "isRightOrFull" =>
         /\ call.bret <=> (isRight(k) \/ isFull(k))
         /\ k = "Paste" => ~call.bret
    /\ call.fn = "isLeftOrFull" =>
         /\ call.bret <=> (isLeft(k) \/ isFull(k))
         /\ k = "Paste" => ~call.bret
    /\ call.fn = "isInnerOrRight" =>
         /\ call.bret <=> (isInner(k) \/ isRight(k))
         /\ k = "Paste" => ~call.bret
    /\ call.fn = "isInnerOrLeft" =>
         /\ call.bret <=> (isInner(k) \/ isLeft(k))
         /\ k = "Paste" => ~call.bret

C9_Witness ==
    /\ call.fn = "isOuter"
    /\ call.arg = "Full"
    /\ call.bret

\* C10: on the result of reverseJoinKind the side-sensitive predicates have
\* the value their mirror image has on the argument, and the side-neutral
\* predicates have the value they have on the argument.
C10_ReverseMirrors ==
    call.fn = "reverseJoinKind" =>
        LET k == call.arg
            r == call.eret
        IN  /\ isLeft(r) <=> isRight(k)
            /\ isRight(r) <=> isLeft(k)
            /\ isLeftOrFull(r) <=> isRightOrFull(k)
            /\ isRightOrFull(r) <=> isLeftOrFull(k)
            /\ isInnerOrLeft(r) <=> isInnerOrRight(k)
            /\ isInnerOrRight(r) <=> isInnerOrLeft(k)
            /\ isInner(r) <=> isInner(k)
            /\ isFull(r) <=> isFull(k)
            /\ isOuter(r) <=> isOuter(k)
            /\ isCrossOrComma(r) <=> isCrossOrComma(k)
            /\ isPaste(r) <=> isPaste(k)

C10_Witness ==
    /\ call.fn = "reverseJoinKind"
    /\ call.arg = "Left"
    /\ isRight(call.eret)
    /\ isRightOrFull(call.eret)

====
